---- MODULE Spec2Model ----
(***************************************************************************)
(* Front-end control layer of the cyrano dictation application.            *)
(*                                                                         *)
(*  - Spec     : one window (main window or recording-overlay window),     *)
(*               its UI store, its backend-event listeners and, in the     *)
(*               overlay window, the RecordingOverlay component with its   *)
(*               auto-dismiss timer.                                       *)
(*  - SpecLive : Spec with the fairness of the browser's timers.           *)
(*  - SpecPref : the preferences surface: shortcut change with rollback    *)
(*               (GeneralPane.handleShortcutChange).                       *)
(*  - SpecStore: the setters of the UI store, called on any store value.   *)
(***************************************************************************)
EXTENDS Integers, Sequences, FiniteSets, TLC

VARIABLES
    win,                \* which window this store/React tree belongs to
    mounted,            \* the window's React tree (listeners effect, overlay) is mounted
    store,              \* useUIStore state (recording slice)
    dismissTimeoutRef,  \* RecordingOverlay: dismissTimeoutRef.current
    timers,             \* pending setTimeout timers of the window
    subs,               \* per event name: state of the listen() subscription
    quiesced,           \* the backend emits no further event, the window stays up
    issued,             \* backend commands issued by the last step, in order
    last,               \* history: the last step and the store condition it started from
    cycle               \* history: what happened since the pending timer was armed

sessionVars ==
    <<win, mounted, store, dismissTimeoutRef, timers, subs, quiesced, issued, last, cycle>>

VARIABLES
    preferences,        \* usePreferences().data: cached preference record, or undefined
    persisted,          \* preference record on disk (backend)
    activeShortcut,     \* shortcut registration held by the backend
    tx                  \* invocations of handleShortcutChange, by slot

prefVars == <<preferences, persisted, activeShortcut, tx>>

VARIABLES
    appearance,         \* AppearancePane: its own savePreferences mutation
    pair,               \* the stores of both windows, fed the same event sequence
    perm                \* useAccessibilityPermission: hook state and calls in flight

auxVars == <<appearance, pair, perm>>

-----------------------------------------------------------------------------
(* Values *)

null == "null"

\* useRef<...>(null): a timer id is a positive integer, 0 stands for null
nullRef == 0

Windows == {"main", "overlay"}

RecordingState == {"idle", "recording", "transcribing", "done", "error"}

\* CyranoError payloads carried by recording-failed / transcription-failed
Errors == {"MicAccessDenied", "RecordingFailed"}

\* text payloads of transcription-complete
Texts == {"hello world", "hi"}

\* state strings carried by recording-state-changed (any string can arrive)
StatePayloads == {"Idle", "recording", "TRANSCRIBING", "Done", "error", "Paused"}

CommandStatus == {"ok", "error"}

\* the listen() calls of the overlay window's effect, in source order
OverlayListeners ==
    <<"recording-failed", "recording-stopped", "recording-started",
      "recording-state-changed", "transcription-started", "transcription-complete",
      "transcription-failed", "transcription-cancelled">>

\* the listen() calls of the main window's recording effect, in source order
MainListeners ==
    <<"recording-overlay-shown", "recording-overlay-dismissed", "recording-cancelled",
      "recording-state-changed", "recording-started", "recording-stopped",
      "recording-failed">>

\* subscription setups that fail during one mount
MaxFailed == 1

AUTO_DISMISS_SUCCESS_MS == 1200

AUTO_DISMISS_ERROR_MS == 1800

\* granularity of the clock: both delays are multiples of it
TickMs == AUTO_DISMISS_ERROR_MS - AUTO_DISMISS_SUCCESS_MS

\* how many ticks a quiet period after arming a timer is followed for
MaxTicks == 5

MaxElapsed == MaxTicks * TickMs

\* clicks followed within one quiet period
MaxClicks == 2

-----------------------------------------------------------------------------
(* String.prototype.toLowerCase on the payloads above *)

toLowerCase(s) ==
    CASE s = "Idle" -> "idle"
      [] s = "TRANSCRIBING" -> "transcribing"
      [] s = "Done" -> "done"
      [] s = "Paused" -> "paused"
      [] OTHER -> s

-----------------------------------------------------------------------------
(* useUIStore: initial state and setters (operators on the store record) *)

InitialStore ==
    [ recordingOverlayVisible |-> FALSE,
      recordingState          |-> "idle",
      recordingError          |-> null,
      transcriptionResult     |-> null ]

setRecordingOverlayVisible(s, visible) ==
    [s EXCEPT !.recordingOverlayVisible = visible]

setRecordingState(s, state) ==
    [s EXCEPT !.recordingState = state]

setRecordingError(s, error) ==
    [s EXCEPT !.recordingError = error, !.recordingState = "error"]

\* variant: clearing the error also takes the state out of 'error'
clearRecordingError_ResetsState(s) ==
    [s EXCEPT !.recordingError = null,
              !.recordingState = IF @ = "error" THEN "idle" ELSE @]

clearRecordingError(s) ==
    [s EXCEPT !.recordingError = null]

setTranscriptionResult(s, text) ==
    [s EXCEPT !.transcriptionResult = text]

clearTranscriptionResult(s) ==
    [s EXCEPT !.transcriptionResult = null]

-----------------------------------------------------------------------------
(* RecordingOverlay component *)

isError(s) == s.recordingState = "error" \/ s.recordingError # null

\* dependency array of the auto-dismiss effect
effectDeps(s) == <<s.recordingState, isError(s)>>

\* window.clearTimeout: the timer with this id is no longer pending
clearTimeout(ts, id) == {t \in ts : t.id # id}

\* window.setTimeout: a new pending timer with an id not in use
setTimeout(ts, ref, delay) ==
    LET used == {t.id : t \in ts} \cup {ref}
        id   == CHOOSE i \in 1..(Cardinality(used) + 1) : i \notin used
    IN  [id |-> id, timers |-> ts \cup {[id |-> id, delay |-> delay, elapsed |-> 0]}]

\* variant: the ref is reset but the timer itself is not cleared
clearPendingTimeout_RefOnly(c) ==
    IF c.ref # nullRef THEN [ref |-> nullRef, timers |-> c.timers] ELSE c

\* if (dismissTimeoutRef.current) { clearTimeout(...); dismissTimeoutRef.current = null }
clearPendingTimeout(c) ==
    IF c.ref # nullRef
    THEN [ref |-> nullRef, timers |-> clearTimeout(c.timers, c.ref)]
    ELSE c

\* variant: the success delay is used for the error condition as well
autoDismissEffect_SameDelay(s, c) ==
    IF s.recordingState = "done" \/ isError(s)
    THEN LET t == setTimeout(c.timers, c.ref, AUTO_DISMISS_SUCCESS_MS)
         IN  [ref |-> t.id, timers |-> t.timers]
    ELSE c

\* body of the auto-dismiss effect, run with the values of the render
autoDismissEffect(s, c) ==
    IF s.recordingState = "done" \/ isError(s)
    THEN LET delay == IF isError(s) THEN AUTO_DISMISS_ERROR_MS
                                    ELSE AUTO_DISMISS_SUCCESS_MS
             t     == setTimeout(c.timers, c.ref, delay)
         IN  [ref |-> t.id, timers |-> t.timers]
    ELSE c

\* variant: the effect returns no cleanup
effectCleanup_None(c) == c

\* cleanup returned by the auto-dismiss effect
effectCleanup(c) == clearPendingTimeout(c)

\* re-render after a store change: the effect re-runs only when its
\* dependencies changed, cleanup of the previous run first
reRender(pre, post, c) ==
    IF effectDeps(pre) = effectDeps(post)
    THEN c
    ELSE autoDismissEffect(post, effectCleanup(c))

\* variant: the error is not cleared by the dismiss routine
dismissReset_KeepError(s) ==
    clearTranscriptionResult(
        setRecordingOverlayVisible(setRecordingState(s, "idle"), FALSE))

\* store part of dismissOverlay
dismissReset(s) ==
    clearTranscriptionResult(
        setRecordingOverlayVisible(
            setRecordingState(clearRecordingError(s), "idle"), FALSE))

Cmd(name, status) == [cmd |-> name, status |-> status]

-----------------------------------------------------------------------------
(* History bookkeeping *)

NoCycle ==
    [kind |-> "none", elapsed |-> 0, clicks |-> 0, fires |-> 0,
     dismisses |-> 0, first |-> "none"]

NewCycle(s) ==
    [NoCycle EXCEPT !.kind = IF isError(s) THEN "error" ELSE "done"]

Min(a, b) == IF a < b THEN a ELSE b

NumDismiss(cmds) ==
    Cardinality({i \in 1..Len(cmds) : cmds[i].cmd = "dismissRecordingOverlay"})

\* the effect armed a timer in this step
Armed(pre, post) ==
    /\ win = "overlay" /\ mounted
    /\ effectDeps(pre) # effectDeps(post)
    /\ post.recordingState = "done" \/ isError(post)

Stamp(op) ==
    [op |-> op, recordingState |-> store.recordingState,
     isError |-> isError(store), hadError |-> store.recordingError # null,
     hadTimer |-> timers # {}]

\* common part of every handler: commit the store, re-render, record history
Commit(op, post, c, cmds) ==
    LET r == IF win = "overlay" /\ mounted THEN reRender(store, post, c) ELSE c
    IN  /\ store' = post
        /\ dismissTimeoutRef' = r.ref
        /\ timers' = r.timers
        /\ issued' = cmds
        /\ last' = Stamp(op)
        /\ cycle' =
             IF Armed(store, post) THEN NewCycle(post)
             ELSE IF op \in {"click", "timer"} /\ cycle.kind # "none"
             THEN [cycle EXCEPT
                     !.clicks = @ + (IF op = "click" THEN 1 ELSE 0),
                     !.fires = @ + (IF op = "timer" THEN 1 ELSE 0),
                     !.dismisses = @ + NumDismiss(cmds),
                     !.first = IF @ = "none" THEN op ELSE @]
             ELSE NoCycle
        /\ UNCHANGED <<win, mounted, subs, quiesced, prefVars, auxVars>>

Comp == [ref |-> dismissTimeoutRef, timers |-> timers]

-----------------------------------------------------------------------------
(* Subscriptions: listen(name, handler).then(push unlisten).catch(log)       *)
(*   none      not subscribed                                              *)
(*   pending   listen() called, its promise not settled                    *)
(*   active    registered, unlisten held by the effect's array             *)
(*   failed    the promise was rejected; the catch logged it               *)
(*   released  unlisten was called by the effect cleanup                   *)
(*   orphan    promise not settled when the effect cleanup ran             *)
(*   leaked    registered after the cleanup ran: unlisten is never called  *)

ListenersOf(w) == IF w = "overlay" THEN OverlayListeners ELSE MainListeners

ListenerNames(w) == {ListenersOf(w)[i] : i \in DOMAIN ListenersOf(w)}

Unsettled(s) == {i \in DOMAIN ListenersOf(win) : s[ListenersOf(win)[i]] \in {"pending", "orphan"}}

\* the listen() calls go out in source order and their promises settle in
\* that order
NextToSettle(s) ==
    ListenersOf(win)[CHOOSE i \in Unsettled(s) : \A j \in Unsettled(s) : i <= j]

\* the backend delivers events to a handler while its registration exists
Registered(e) == e \in DOMAIN subs /\ subs[e] \in {"active", "leaked"}

\* .then(unlisten => unlisteners.push(unlisten)): the array is walked by the
\* cleanup once, a function pushed after that is never called
listenResolved(status) == IF status = "pending" THEN "active" ELSE "leaked"

\* .catch(error => logger.error(...)): the rejection is logged, nothing else
listenRejected(status) == "failed"

\* variant: the first rejection abandons the subscriptions still being set up
afterRejection_AbortsRest(s, e) ==
    [f \in DOMAIN s |-> IF f = e \/ s[f] \in {"pending", "orphan"}
                        THEN listenRejected(s[f]) ELSE s[f]]

\* every listen() call has its own promise chain
afterRejection(s, e) == [s EXCEPT ![e] = listenRejected(s[e])]

\* effect cleanup: unlisteners.forEach(unlisten => unlisten())
listenersCleanup(s) ==
    [e \in DOMAIN s |->
        CASE s[e] = "active"  -> "released"
          [] s[e] = "pending" -> "orphan"
          [] OTHER            -> s[e]]

\* the window is mounted again only after a teardown that left no promise
\* unsettled and no registration behind
CleanTeardown(s) == \A e \in DOMAIN s : s[e] \notin {"orphan", "leaked"}

listenResolves ==
    /\ Unsettled(subs) # {}
    /\ LET e == NextToSettle(subs)
       IN  subs' = [subs EXCEPT ![e] = listenResolved(subs[e])]
    /\ UNCHANGED <<win, mounted, store, dismissTimeoutRef, timers, quiesced,
                   issued, last, cycle, prefVars, auxVars>>

listenRejects ==
    /\ Unsettled(subs) # {}
    /\ Cardinality({e \in DOMAIN subs : subs[e] = "failed"}) < MaxFailed
    /\ subs' = afterRejection(subs, NextToSettle(subs))
    /\ UNCHANGED <<win, mounted, store, dismissTimeoutRef, timers, quiesced,
                   issued, last, cycle, prefVars, auxVars>>

\* from here on the backend emits nothing and the window is not torn down
backendQuiesces ==
    /\ mounted
    /\ ~quiesced
    /\ quiesced' = TRUE
    /\ UNCHANGED <<win, mounted, store, dismissTimeoutRef, timers, subs,
                   issued, last, cycle, prefVars, auxVars>>

-----------------------------------------------------------------------------
(* Mount / unmount of the window's React tree *)

Mount ==
    /\ ~mounted
    /\ CleanTeardown(subs)
    /\ mounted' = TRUE
    /\ subs' = [e \in ListenerNames(win) |-> "pending"]
    /\ LET r == IF win = "overlay" THEN autoDismissEffect(store, Comp) ELSE Comp
       IN  /\ dismissTimeoutRef' = r.ref
           /\ timers' = r.timers
    /\ cycle' = IF win = "overlay" /\ (store.recordingState = "done" \/ isError(store))
                THEN NewCycle(store) ELSE NoCycle
    /\ issued' = <<>>
    /\ last' = Stamp("mount")
    /\ UNCHANGED <<win, store, quiesced, prefVars, auxVars>>

Unmount ==
    /\ mounted
    /\ ~quiesced
    /\ mounted' = FALSE
    /\ subs' = listenersCleanup(subs)
    /\ LET r == IF win = "overlay" THEN effectCleanup(Comp) ELSE Comp
       IN  /\ dismissTimeoutRef' = r.ref
           /\ timers' = r.timers
    /\ cycle' = NoCycle
    /\ issued' = <<>>
    /\ last' = Stamp("unmount")
    /\ UNCHANGED <<win, store, quiesced, prefVars, auxVars>>

-----------------------------------------------------------------------------
(* EventBridge of the overlay window (RecordingOverlayApp) *)

\* the window's component tree is mounted
Listening(w) == win = w /\ mounted

\* the backend emits event e and window w holds a registration for it
Delivered(w, e) == win = w /\ ~quiesced /\ Registered(e)

\* variant: the handler also clears the error
onRecordingStopped_ClearsError(s) ==
    setRecordingState(clearRecordingError(s), "transcribing")

\* handler of recording-stopped
onRecordingStopped(s) == setRecordingState(s, "transcribing")

\* variant: the handler does not clear the error
onRecordingStarted_KeepsError(s) == setRecordingState(s, "recording")

\* handler of recording-started
onRecordingStarted(s) == setRecordingState(clearRecordingError(s), "recording")

\* variant: the handler does not store the text
onTranscriptionComplete_NoResult(s, text) == setRecordingState(s, "done")

\* handler of transcription-complete
onTranscriptionComplete(s, text) ==
    setRecordingState(setTranscriptionResult(s, text), "done")

Overlay_recordingFailed ==
    /\ Delivered("overlay", "recording-failed")
    /\ \E e \in Errors :
         Commit("recording-failed", setRecordingError(store, e), Comp, <<>>)

Overlay_recordingStopped ==
    /\ Delivered("overlay", "recording-stopped")
    /\ Commit("recording-stopped", onRecordingStopped(store), Comp, <<>>)

Overlay_recordingStarted ==
    /\ Delivered("overlay", "recording-started")
    /\ Commit("recording-started", onRecordingStarted(store), Comp, <<>>)

Overlay_recordingStateChanged ==
    /\ Delivered("overlay", "recording-state-changed")
    /\ \E p \in StatePayloads :
         Commit("recording-state-changed",
                setRecordingState(store, toLowerCase(p)), Comp, <<>>)

Overlay_transcriptionStarted ==
    /\ Delivered("overlay", "transcription-started")
    /\ Commit("transcription-started", store, Comp, <<>>)

Overlay_transcriptionComplete ==
    /\ Delivered("overlay", "transcription-complete")
    /\ \E text \in Texts :
         Commit("transcription-complete", onTranscriptionComplete(store, text),
                Comp, <<>>)

Overlay_transcriptionFailed ==
    /\ Delivered("overlay", "transcription-failed")
    /\ \E e \in Errors :
         Commit("transcription-failed", setRecordingError(store, e), Comp, <<>>)

Overlay_transcriptionCancelled ==
    /\ Delivered("overlay", "transcription-cancelled")
    /\ \E status \in CommandStatus :
         Commit("transcription-cancelled",
                setRecordingOverlayVisible(
                    setRecordingState(clearTranscriptionResult(store), "idle"), FALSE),
                Comp, <<Cmd("dismissRecordingOverlay", status)>>)

-----------------------------------------------------------------------------
(* EventBridge of the main window (useMainWindowEventListeners) *)

\* let isMounted = true ... cleanup: isMounted = false
isMounted == mounted

\* every handler of the main window starts with: if (!isMounted) return
guarded(post) == IF isMounted THEN post ELSE store

safeSetRecordingState(s, state) == setRecordingState(s, toLowerCase(state))

Main_recordingOverlayShown ==
    /\ Delivered("main", "recording-overlay-shown")
    /\ Commit("recording-overlay-shown",
              guarded(setRecordingState(setRecordingOverlayVisible(store, TRUE),
                                        "recording")),
              Comp, <<>>)

Main_recordingOverlayDismissed ==
    /\ Delivered("main", "recording-overlay-dismissed")
    /\ Commit("recording-overlay-dismissed",
              guarded(setRecordingState(setRecordingOverlayVisible(store, FALSE),
                                        "idle")),
              Comp, <<>>)

Main_recordingCancelled ==
    /\ Delivered("main", "recording-cancelled")
    /\ Commit("recording-cancelled",
              guarded(setRecordingState(setRecordingOverlayVisible(store, FALSE),
                                        "idle")),
              Comp, <<>>)

Main_recordingStateChanged ==
    /\ Delivered("main", "recording-state-changed")
    /\ \E p \in StatePayloads :
         Commit("recording-state-changed", guarded(safeSetRecordingState(store, p)),
                Comp, <<>>)

Main_recordingStarted ==
    /\ Delivered("main", "recording-started")
    /\ Commit("recording-started",
              guarded(setRecordingState(clearRecordingError(store), "recording")),
              Comp, <<>>)

Main_recordingStopped ==
    /\ Delivered("main", "recording-stopped")
    /\ Commit("recording-stopped", guarded(setRecordingState(store, "transcribing")),
              Comp, <<>>)

Main_recordingFailed ==
    /\ Delivered("main", "recording-failed")
    /\ \E e \in Errors :
         Commit("recording-failed",
                guarded(setRecordingOverlayVisible(setRecordingError(store, e), TRUE)),
                Comp, <<>>)

-----------------------------------------------------------------------------
(* RecordingOverlay: dismiss routine, click, timer *)

\* variant: a failed command puts the store back as it was
commandSettled_RevertOnError(pre, post, status) ==
    IF status = "error" THEN pre ELSE post

\* the store once an awaited command has settled: an error result is only
\* logged, the writes made before the call stay
commandSettled(pre, post, status) == post

\* dismissOverlay started with component state c
dismissOverlay(op, c, status) ==
    Commit(op, commandSettled(store, dismissReset(store), status),
           clearPendingTimeout(c), <<Cmd("dismissRecordingOverlay", status)>>)

\* variant: every click dismisses
clickBranch_AlwaysDismiss(s) == "dismissOverlay"

\* the branch handleClick takes
clickBranch(s) ==
    IF s.recordingState = "transcribing" THEN "cancelTranscription"
    ELSE IF s.recordingState = "recording" THEN "cancelRecording"
    ELSE "dismissOverlay"

\* variant: a failed cancel-recording resets the session
cancelRecordingSettled_ResetOnError(s, status) ==
    IF status = "error" THEN dismissReset(s) ELSE s

\* await commands.cancelRecording(): an error result is only logged
cancelRecordingSettled(s, status) == s

handleClick ==
    /\ Listening("overlay")
    /\ cycle.kind # "none" => cycle.clicks < MaxClicks
    /\ \E status \in CommandStatus :
         LET c == clearPendingTimeout(Comp)
         IN  IF clickBranch(store) = "cancelTranscription"
             THEN Commit("click", store, c, <<Cmd("cancelTranscription", status)>>)
             ELSE IF clickBranch(store) = "cancelRecording"
             THEN Commit("click", cancelRecordingSettled(store, status), c,
                         <<Cmd("cancelRecording", status)>>)
             ELSE dismissOverlay("click", c, status)

\* a pending timer whose delay has elapsed runs its callback
timerFires ==
    \E t \in timers :
        /\ t.elapsed >= t.delay
        /\ \E status \in CommandStatus :
             dismissOverlay("timer",
                            [ref |-> dismissTimeoutRef, timers |-> timers \ {t}],
                            status)

\* time passes by one tick; a due timer runs before time passes further
advanceTime ==
    /\ \A t \in timers : t.elapsed + TickMs <= t.delay
    /\ timers # {} \/ (cycle.kind # "none" /\ cycle.elapsed < MaxElapsed)
    /\ timers' = {[t EXCEPT !.elapsed = @ + TickMs] : t \in timers}
    /\ cycle' = IF cycle.kind = "none" THEN cycle
                ELSE [cycle EXCEPT !.elapsed = Min(@ + TickMs, MaxElapsed)]
    /\ issued' = <<>>
    /\ last' = Stamp("time")
    /\ UNCHANGED <<win, mounted, store, dismissTimeoutRef, subs, quiesced, prefVars, auxVars>>


-----------------------------------------------------------------------------
(* Preferences surface: GeneralPane.handleShortcutChange                     *)

\* usePreferences().data before the query has resolved
undefined == [quick_pane_shortcut |-> "undefined", theme |-> "undefined"]

\* values of quick_pane_shortcut (string | null)
Shortcuts == {null, "CommandOrControl+Shift+.", "Alt+Space"}

Themes == {"light", "dark"}

\* handleShortcutChange invocations that can be in flight together
MaxTx == 2

Tx == 1..MaxTx

NoRecord == [quick_pane_shortcut |-> null, theme |-> "light"]

IdleTx ==
    [pc |-> "idle", newShortcut |-> null, oldShortcut |-> null,
     preferences |-> NoRecord, calls |-> <<>>, results |-> <<>>,
     toasts |-> <<>>, outcome |-> "none", alone |-> TRUE, synced |-> TRUE]

InFlight(x) == x.pc \in {"register", "persist", "rollback"}

\* savePreferences.isPending: a mutation has been started and has not settled
isPending == \E t \in Tx : tx[t].pc = "persist"

RegisterCall(value) == [kind |-> "updateQuickPaneShortcut", value |-> value]

PersistCall(record) == [kind |-> "savePreferences", value |-> record]

\* commands.updateQuickPaneShortcut on the backend: a successful call replaces
\* the active registration, a failed one leaves it as it was
updateQuickPaneShortcut(active, value, status) ==
    IF status = "ok" THEN value ELSE active

\* savePreferences on the backend: a successful call replaces the record on disk
savePreferencesBackend(record, status) ==
    IF status = "ok" THEN record ELSE persisted

\* useSavePreferences: a successful mutation puts the saved record in the cache
savePreferencesCache(record, status) ==
    IF status = "ok" THEN record ELSE preferences

\* variant: a failed mutation is only logged
savePreferencesToasts_Silent(status) == <<>>

\* useSavePreferences: a failed mutation is surfaced as a toast by the service
savePreferencesToasts(status) ==
    IF status = "ok" THEN <<>> ELSE <<"preferences-not-saved">>

\* usePreferences: the query resolves with the record on disk
loadPreferences ==
    /\ preferences = undefined
    /\ preferences' = persisted
    /\ UNCHANGED <<persisted, activeShortcut, tx, sessionVars, auxVars>>

\* variant: only the shortcut is saved, the other fields are dropped
shortcutRecord_OnlyShortcut(x) == [NoRecord EXCEPT !.quick_pane_shortcut = x.newShortcut]

\* the record handed to savePreferences.mutateAsync
shortcutRecord(x) == [x.preferences EXCEPT !.quick_pane_shortcut = x.newShortcut]

\* variant: the rollback registers the new shortcut again
rollbackShortcut_New(x) == x.newShortcut

\* the value re-registered when the save failed
rollbackShortcut(x) == x.oldShortcut

\* toast surfaced when registration of the new shortcut fails
shortcutFailedToast == "toast.error.shortcutFailed"

\* variant: the rollback failure reuses the registration-failure toast
shortcutRestoreFailedToast_Plain == "toast.error.shortcutFailed"

\* toast surfaced when the rollback registration fails
shortcutRestoreFailedToast == "toast.error.shortcutRestoreFailed"

\* variant: the early return after a failed registration is missing
afterRegister_NoReturn(status) == "persist"

\* where handleShortcutChange continues after the first registration call
afterRegister(status) == IF status = "error" THEN "done" ELSE "persist"

\* variant: the guard on the preferences being loaded is missing
notLoaded_Never(prefs) == FALSE

\* if (!preferences) return
notLoaded(prefs) == prefs = undefined

\* the picker calls onChange(newShortcut); it is disabled while a save is pending.
\* Slots are taken lowest first, once the invocations that returned are forgotten.
handleShortcutChange(t) ==
    /\ tx[t].pc = "idle"
    /\ \A u \in Tx : tx[u].pc # "done" /\ (u < t => tx[u].pc # "idle")
    /\ ~isPending
    /\ \E newShortcut \in Shortcuts :
         IF notLoaded(preferences)
         THEN tx' = [tx EXCEPT ![t] =
                       [IdleTx EXCEPT !.pc = "done", !.newShortcut = newShortcut,
                                      !.outcome = "ignored"]]
         ELSE LET others == {u \in Tx : u # t /\ InFlight(tx[u])}
              IN  tx' = [u \in Tx |->
                          IF u = t
                          THEN [IdleTx EXCEPT
                                  !.pc = "register",
                                  !.newShortcut = newShortcut,
                                  !.oldShortcut = preferences.quick_pane_shortcut,
                                  !.preferences = preferences,
                                  !.calls = <<RegisterCall(newShortcut)>>,
                                  !.alone = (others = {}),
                                  !.synced =
                                      IF others = {}
                                      THEN activeShortcut = persisted.quick_pane_shortcut
                                      ELSE \A o \in others : tx[o].synced]
                          ELSE IF u \in others
                          THEN [tx[u] EXCEPT !.alone = FALSE]
                          ELSE tx[u]]
    /\ UNCHANGED <<preferences, persisted, activeShortcut, sessionVars, auxVars>>

\* await commands.updateQuickPaneShortcut(newShortcut) settles
registerSettles(t) ==
    /\ tx[t].pc = "register"
    /\ \E status \in CommandStatus :
         LET x    == tx[t]
             next == afterRegister(status)
         IN  /\ activeShortcut' =
                    updateQuickPaneShortcut(activeShortcut, x.newShortcut, status)
             /\ tx' = [tx EXCEPT ![t] =
                         [x EXCEPT
                            !.pc = next,
                            !.results = Append(@, status),
                            !.toasts = IF status = "error"
                                       THEN Append(@, shortcutFailedToast) ELSE @,
                            !.calls = IF next = "persist"
                                      THEN Append(@, PersistCall(shortcutRecord(x)))
                                      ELSE @,
                            !.outcome = IF next = "done"
                                        THEN "registrationFailed" ELSE @]]
    /\ UNCHANGED <<preferences, persisted, sessionVars, auxVars>>

\* await savePreferences.mutateAsync(...) settles
persistSettles(t) ==
    /\ tx[t].pc = "persist"
    /\ \E status \in CommandStatus :
         LET x      == tx[t]
             record == shortcutRecord(x)
         IN  /\ persisted' = savePreferencesBackend(record, status)
             /\ preferences' = savePreferencesCache(record, status)
             /\ tx' = [tx EXCEPT ![t] =
                         [x EXCEPT
                            !.pc = IF status = "ok" THEN "done" ELSE "rollback",
                            !.results = Append(@, status),
                            !.toasts = @ \o savePreferencesToasts(status),
                            !.calls = IF status = "ok" THEN @
                                      ELSE Append(@, RegisterCall(rollbackShortcut(x))),
                            !.outcome = IF status = "ok" THEN "success" ELSE @]]
    /\ UNCHANGED <<activeShortcut, sessionVars, auxVars>>

\* await commands.updateQuickPaneShortcut(oldShortcut) settles
rollbackSettles(t) ==
    /\ tx[t].pc = "rollback"
    /\ \E status \in CommandStatus :
         LET x == tx[t]
         IN  /\ activeShortcut' =
                    updateQuickPaneShortcut(activeShortcut, rollbackShortcut(x), status)
             /\ tx' = [tx EXCEPT ![t] =
                         [x EXCEPT
                            !.pc = "done",
                            !.results = Append(@, status),
                            !.toasts = IF status = "error"
                                       THEN Append(@, shortcutRestoreFailedToast)
                                       ELSE @,
                            !.outcome = IF status = "error"
                                        THEN "desync" ELSE "rolledBack"]]
    /\ UNCHANGED <<preferences, persisted, sessionVars, auxVars>>

\* the invocation has returned; its slot is free for the next change
handlerReturns(t) ==
    /\ tx[t].pc = "done"
    /\ tx' = [tx EXCEPT ![t] = IdleTx]
    /\ UNCHANGED <<preferences, persisted, activeShortcut, sessionVars, auxVars>>

PrefInit ==
    /\ preferences = undefined
    /\ persisted \in [quick_pane_shortcut : Shortcuts, theme : Themes]
    /\ activeShortcut = persisted.quick_pane_shortcut
    /\ tx = [t \in Tx |-> IdleTx]

NextPref ==
    \/ loadPreferences
    \/ \E t \in Tx : handleShortcutChange(t)
    \/ \E t \in Tx : registerSettles(t)
    \/ \E t \in Tx : persistSettles(t)
    \/ \E t \in Tx : rollbackSettles(t)
    \/ \E t \in Tx : handlerReturns(t)

-----------------------------------------------------------------------------
(* Preferences surface: AppearancePane.handleThemeChange                     *)
(* The pane has its own useSavePreferences() mutation: its isPending tells   *)
(* nothing about a save started by GeneralPane, and the other way round.     *)

IdleSave == [pc |-> "idle", record |-> NoRecord]

\* { ...preferences, theme: value }
themeRecord(prefs, value) == [prefs EXCEPT !.theme = value]

\* the Select calls handleThemeChange(value); it is disabled while the pane's
\* own save is pending. Without loaded preferences only setTheme runs.
handleThemeChange ==
    /\ appearance.pc = "idle"
    /\ \E value \in Themes :
         appearance' = IF preferences # undefined
                       THEN [pc |-> "pending", record |-> themeRecord(preferences, value)]
                       ELSE appearance
    /\ UNCHANGED <<prefVars, sessionVars, pair, perm>>

\* savePreferences.mutate(...) settles
themeSaveSettles ==
    /\ appearance.pc = "pending"
    /\ \E status \in CommandStatus :
         /\ persisted' = savePreferencesBackend(appearance.record, status)
         /\ preferences' = savePreferencesCache(appearance.record, status)
    /\ appearance' = IdleSave
    /\ UNCHANGED <<activeShortcut, tx, sessionVars, pair, perm>>

\* theme changes next to one burst of shortcut changes
NextAppearance ==
    \/ loadPreferences
    \/ \E t \in Tx : handleShortcutChange(t)
    \/ \E t \in Tx : registerSettles(t)
    \/ \E t \in Tx : persistSettles(t)
    \/ \E t \in Tx : rollbackSettles(t)
    \/ handleThemeChange
    \/ themeSaveSettles

-----------------------------------------------------------------------------
(* Both windows, each with its own store, fed the same sequence of events   *)

\* every event either window subscribes to
Events == ListenerNames("overlay") \cup ListenerNames("main")

Payloads == [error : Errors, text : Texts, state : StatePayloads]

\* events of one sequence
MaxEvents == 3

\* the overlay window's handler of event e, on its store; no handler for an
\* event it does not subscribe to
overlayHandles(s, e, p) ==
    CASE e = "recording-failed"         -> setRecordingError(s, p.error)
      [] e = "recording-stopped"        -> onRecordingStopped(s)
      [] e = "recording-started"        -> onRecordingStarted(s)
      [] e = "recording-state-changed"  -> setRecordingState(s, toLowerCase(p.state))
      [] e = "transcription-started"    -> s
      [] e = "transcription-complete"   -> onTranscriptionComplete(s, p.text)
      [] e = "transcription-failed"     -> setRecordingError(s, p.error)
      [] e = "transcription-cancelled"  ->
             setRecordingOverlayVisible(
                 setRecordingState(clearTranscriptionResult(s), "idle"), FALSE)
      [] OTHER                          -> s

\* the main window's handler of event e, on its store
mainHandles(s, e, p) ==
    CASE e = "recording-overlay-shown"     ->
             setRecordingState(setRecordingOverlayVisible(s, TRUE), "recording")
      [] e = "recording-overlay-dismissed" ->
             setRecordingState(setRecordingOverlayVisible(s, FALSE), "idle")
      [] e = "recording-cancelled"         ->
             setRecordingState(setRecordingOverlayVisible(s, FALSE), "idle")
      [] e = "recording-state-changed"     -> safeSetRecordingState(s, p.state)
      [] e = "recording-started"           ->
             setRecordingState(clearRecordingError(s), "recording")
      [] e = "recording-stopped"           -> setRecordingState(s, "transcribing")
      [] e = "recording-failed"            ->
             setRecordingOverlayVisible(setRecordingError(s, p.error), TRUE)
      [] OTHER                             -> s

\* the backend emits an event; both windows are mounted with their listeners
\* registered, and each runs its handler
backendEmits ==
    /\ pair.processed < MaxEvents
    /\ \E e \in Events, p \in Payloads :
         pair' = [main      |-> mainHandles(pair.main, e, p),
                  overlay   |-> overlayHandles(pair.overlay, e, p),
                  lastEvent |-> e,
                  processed |-> pair.processed + 1]
    /\ UNCHANGED <<sessionVars, prefVars, appearance, perm>>

NextPair == backendEmits

-----------------------------------------------------------------------------
(* useAccessibilityPermission *)

PermissionStatus == {"NotDetermined", "Granted", "Denied"}

\* outcome of commands.checkAccessibilityPermission(): a status, or a throw
CheckOutcomes == PermissionStatus \cup {"throw"}

\* outcome of commands.requestAccessibilityPermission(): a Result, or a throw
RequestOutcomes ==
    {[status |-> "ok", data |-> TRUE], [status |-> "ok", data |-> FALSE],
     [status |-> "error", data |-> FALSE], [status |-> "throw", data |-> FALSE]}

\* checkPermission calls, other than the one of requestPermission, in flight
MaxChecks == 2

InitialPerm ==
    [status |-> "NotDetermined", isChecking |-> FALSE, checks |-> 0,
     pc |-> "idle", result |-> [status |-> "ok", data |-> FALSE],
     returned |-> FALSE, rechecked |-> FALSE,
     last |-> [op |-> "init", threw |-> FALSE]]

\* variant: a throwing check leaves the status as it was
onCheckError_KeepsStatus(status) == status

\* catch: setStatus('NotDetermined')
onCheckError(status) == "NotDetermined"

\* try { setStatus(result) } catch { ... } finally { setIsChecking(false) }
checkSettled(h, outcome) ==
    [h EXCEPT !.status = IF outcome = "throw" THEN onCheckError(@) ELSE outcome,
              !.isChecking = FALSE]

\* checkPermission(), from the mount effect or from the caller: up to the await
checkPermission ==
    /\ perm.checks < MaxChecks
    /\ perm' = [perm EXCEPT !.isChecking = TRUE, !.checks = @ + 1,
                            !.last = [op |-> "checkPermission", threw |-> FALSE]]
    /\ UNCHANGED <<sessionVars, prefVars, appearance, pair>>

\* await commands.checkAccessibilityPermission() settles
checkSettles ==
    /\ perm.checks > 0
    /\ \E outcome \in CheckOutcomes :
         perm' = [checkSettled(perm, outcome) EXCEPT
                    !.checks = @ - 1,
                    !.last = [op |-> "checkSettles", threw |-> outcome = "throw"]]
    /\ UNCHANGED <<sessionVars, prefVars, appearance, pair>>

\* requestPermission(): up to the await of the request command
requestPermission ==
    /\ perm.pc = "idle"
    /\ perm' = [perm EXCEPT !.pc = "request", !.rechecked = FALSE, !.returned = FALSE,
                            !.last = [op |-> "requestPermission", threw |-> FALSE]]
    /\ UNCHANGED <<sessionVars, prefVars, appearance, pair>>

\* await commands.requestAccessibilityPermission() settles: on ok the status
\* is checked again, otherwise the function returns false
requestSettles ==
    /\ perm.pc = "request"
    /\ \E result \in RequestOutcomes :
         perm' = IF result.status = "ok"
                 THEN [perm EXCEPT !.pc = "recheck", !.result = result,
                                   !.isChecking = TRUE, !.rechecked = TRUE,
                                   !.last = [op |-> "requestSettles", threw |-> FALSE]]
                 ELSE [perm EXCEPT !.pc = "done", !.result = result,
                                   !.returned = FALSE,
                                   !.last = [op |-> "requestSettles",
                                             threw |-> result.status = "throw"]]
    /\ UNCHANGED <<sessionVars, prefVars, appearance, pair>>

\* await checkPermission() inside requestPermission settles; return result.data
recheckSettles ==
    /\ perm.pc = "recheck"
    /\ \E outcome \in CheckOutcomes :
         perm' = [checkSettled(perm, outcome) EXCEPT
                    !.pc = "done",
                    !.returned = perm.result.data,
                    !.last = [op |-> "recheckSettles", threw |-> outcome = "throw"]]
    /\ UNCHANGED <<sessionVars, prefVars, appearance, pair>>

\* the caller has the returned value; requestPermission can be called again
requestReturns ==
    /\ perm.pc = "done"
    /\ perm' = [perm EXCEPT !.pc = "idle",
                            !.last = [op |-> "requestReturns", threw |-> FALSE]]
    /\ UNCHANGED <<sessionVars, prefVars, appearance, pair>>

NextPermission ==
    \/ checkPermission
    \/ checkSettles
    \/ requestPermission
    \/ requestSettles
    \/ recheckSettles
    \/ requestReturns

AuxInit ==
    /\ appearance = IdleSave
    /\ pair = [main |-> InitialStore, overlay |-> InitialStore,
               lastEvent |-> "none", processed |-> 0]
    /\ perm = InitialPerm

-----------------------------------------------------------------------------

vars == <<sessionVars, prefVars, auxVars>>

SessionInit ==
    /\ win \in Windows
    /\ mounted = FALSE
    /\ store = InitialStore
    /\ dismissTimeoutRef = nullRef
    /\ timers = {}
    /\ issued = <<>>
    /\ subs = [e \in ListenerNames(win) |-> "none"]
    /\ quiesced = FALSE
    /\ last = [op |-> "init", recordingState |-> "idle", isError |-> FALSE,
               hadError |-> FALSE, hadTimer |-> FALSE]
    /\ cycle = NoCycle
    /\ AuxInit

\* the recording session; the preferences surface is at rest
Init == SessionInit /\ PrefInit /\ persisted = NoRecord

\* the preferences surface, in the main window
InitPref == SessionInit /\ PrefInit /\ win = "main"

Next ==
    \/ Mount
    \/ Unmount
    \/ listenResolves
    \/ listenRejects
    \/ backendQuiesces
    \/ Overlay_recordingFailed
    \/ Overlay_recordingStopped
    \/ Overlay_recordingStarted
    \/ Overlay_recordingStateChanged
    \/ Overlay_transcriptionStarted
    \/ Overlay_transcriptionComplete
    \/ Overlay_transcriptionFailed
    \/ Overlay_transcriptionCancelled
    \/ Main_recordingOverlayShown
    \/ Main_recordingOverlayDismissed
    \/ Main_recordingCancelled
    \/ Main_recordingStateChanged
    \/ Main_recordingStarted
    \/ Main_recordingStopped
    \/ Main_recordingFailed
    \/ handleClick
    \/ timerFires
    \/ advanceTime

Spec == Init /\ [][Next]_vars

\* the browser runs a timer callback that is due, and time passes
Fairness == WF_vars(timerFires) /\ WF_vars(advanceTime)

SpecLive == Init /\ [][Next]_vars /\ Fairness

SpecPref == InitPref /\ [][NextPref]_vars

\* a backend command that was invoked settles, with a result or an error
FairnessPref ==
    \A t \in Tx : /\ WF_vars(registerSettles(t))
                  /\ WF_vars(persistSettles(t))
                  /\ WF_vars(rollbackSettles(t))

\* one burst of shortcut changes: every invocation of the burst is followed
\* from its start to its return, and stays visible afterwards
NextPrefBurst ==
    \/ loadPreferences
    \/ \E t \in Tx : handleShortcutChange(t)
    \/ \E t \in Tx : registerSettles(t)
    \/ \E t \in Tx : persistSettles(t)
    \/ \E t \in Tx : rollbackSettles(t)

SpecPrefLive == InitPref /\ [][NextPrefBurst]_vars /\ FairnessPref

SpecAppearance == InitPref /\ [][NextAppearance]_vars

\* both windows before the first event
InitPair == InitPref /\ persisted = NoRecord

SpecPair == InitPair /\ [][NextPair]_vars

\* the hook after its first render
InitPermission == InitPref /\ persisted = NoRecord

SpecPermission == InitPermission /\ [][NextPermission]_vars

-----------------------------------------------------------------------------
(* The store on its own: any value of the recording slice, any setter call *)

\* values the fields can hold; setRecordingState is also handed strings
\* outside RecordingState by recording-state-changed
StoreValues ==
    [ recordingOverlayVisible : BOOLEAN,
      recordingState          : RecordingState \cup {"paused"},
      recordingError          : Errors \cup {null},
      transcriptionResult     : Texts \cup {null} ]

InitStore ==
    /\ win = "main"
    /\ mounted = FALSE
    /\ store \in StoreValues
    /\ dismissTimeoutRef = nullRef
    /\ timers = {}
    /\ subs = [e \in ListenerNames(win) |-> "none"]
    /\ quiesced = FALSE
    /\ issued = <<>>
    /\ last = [op |-> "init", recordingState |-> "idle", isError |-> FALSE,
               hadError |-> FALSE, hadTimer |-> FALSE]
    /\ cycle = NoCycle
    /\ PrefInit
    /\ persisted = NoRecord
    /\ AuxInit

call_setRecordingOverlayVisible ==
    /\ \E visible \in BOOLEAN : store' = setRecordingOverlayVisible(store, visible)
    /\ last' = Stamp("setRecordingOverlayVisible")
    /\ UNCHANGED <<win, mounted, dismissTimeoutRef, timers, subs, quiesced, issued,
                   cycle, prefVars, auxVars>>

call_setRecordingState ==
    /\ \E state \in RecordingState : store' = setRecordingState(store, state)
    /\ last' = Stamp("setRecordingState")
    /\ UNCHANGED <<win, mounted, dismissTimeoutRef, timers, subs, quiesced, issued,
                   cycle, prefVars, auxVars>>

call_setRecordingError ==
    /\ \E error \in Errors \cup {null} : store' = setRecordingError(store, error)
    /\ last' = Stamp("setRecordingError")
    /\ UNCHANGED <<win, mounted, dismissTimeoutRef, timers, subs, quiesced, issued,
                   cycle, prefVars, auxVars>>

call_clearRecordingError ==
    /\ store' = clearRecordingError(store)
    /\ last' = Stamp("clearRecordingError")
    /\ UNCHANGED <<win, mounted, dismissTimeoutRef, timers, subs, quiesced, issued,
                   cycle, prefVars, auxVars>>

NextStore ==
    \/ call_setRecordingOverlayVisible
    \/ call_setRecordingState
    \/ call_setRecordingError
    \/ call_clearRecordingError

SpecStore == InitStore /\ [][NextStore]_vars

-----------------------------------------------------------------------------
(* Properties, recording session (Spec) *)

EventOps ==
    {"recording-failed", "recording-stopped", "recording-started",
     "recording-state-changed", "transcription-started", "transcription-complete",
     "transcription-failed", "transcription-cancelled", "recording-overlay-shown",
     "recording-overlay-dismissed", "recording-cancelled"}

InOverlay == win = "overlay" /\ mounted

\* C1: after a backend event has been fully applied, recordingState is
\* 'error' if and only if recordingError is non-null.
C1_ErrorStateIffError ==
    last.op \in EventOps =>
        (store.recordingState = "error" <=> store.recordingError # null)

\* C2: while the overlay shows 'done' without error exactly one timer is
\* pending, its delay is 1200 ms and the ref holds it; after a single click
\* that came before the timer ran, no timer is pending and, whatever time has
\* passed since, one dismiss command was issued and the timer never ran.
C2_DoneTimerCancelledByClick ==
    /\ (InOverlay /\ store.recordingState = "done" /\ ~isError(store)) =>
          \E t \in timers :
              /\ timers = {t}
              /\ t.delay = AUTO_DISMISS_SUCCESS_MS
              /\ dismissTimeoutRef = t.id
    /\ (cycle.kind = "done" /\ cycle.first = "click" /\ cycle.clicks = 1) =>
          /\ timers = {}
          /\ dismissTimeoutRef = nullRef
          /\ cycle.dismisses = 1
          /\ cycle.fires = 0

C2_Witness ==
    /\ cycle.kind = "done" /\ cycle.first = "click" /\ cycle.clicks = 1
    /\ cycle.elapsed >= AUTO_DISMISS_SUCCESS_MS + TickMs
    /\ store.recordingState = "idle"

\* C3: the timer armed in the error condition has delay 1800 ms; with no
\* click and no further event nothing is dismissed before 1800 ms have
\* elapsed (in particular not at 1200 ms), and time does not pass 1800 ms
\* without the timer having run and issued one dismiss command.
C3_ErrorTimerIsLonger ==
    (cycle.kind = "error" /\ cycle.clicks = 0) =>
        /\ \A t \in timers : t.delay = AUTO_DISMISS_ERROR_MS
        /\ cycle.elapsed < AUTO_DISMISS_ERROR_MS =>
              (cycle.dismisses = 0 /\ cycle.fires = 0 /\ timers # {})
        /\ cycle.elapsed = AUTO_DISMISS_ERROR_MS =>
              (timers # {} \/ (cycle.fires = 1 /\ cycle.dismisses = 1))
        /\ cycle.elapsed > AUTO_DISMISS_ERROR_MS =>
              (timers = {} /\ cycle.fires = 1 /\ cycle.dismisses = 1)

C3_Witness ==
    /\ cycle.kind = "error" /\ cycle.clicks = 0
    /\ cycle.elapsed = AUTO_DISMISS_ERROR_MS
    /\ cycle.fires = 1 /\ cycle.dismisses = 1

\* C4: whenever recordingState is 'recording' or 'transcribing' no
\* auto-dismiss timer is pending in the overlay.
C4_NoTimerWhileRecordingOrTranscribing ==
    (InOverlay /\ store.recordingState \in {"recording", "transcribing"}) =>
        timers = {}

\* C5: once the overlay is unmounted no timer is pending and the ref is
\* cleared; no timer callback has run since (so none issued a dismiss
\* command or touched the store), and the unmount itself issues no command.
C5_UnmountCancelsTimer ==
    ~mounted =>
        /\ timers = {}
        /\ dismissTimeoutRef = nullRef
        /\ last.op # "timer"
        /\ last.op = "unmount" => issued = <<>>

C5_Witness ==
    /\ win = "overlay" /\ ~mounted
    /\ last.op = "unmount" /\ last.hadTimer

\* C10: a click while recordingState is 'error' leaves recordingError null,
\* recordingState 'idle', the overlay hidden, and issues exactly one
\* dismiss-overlay command.
C10_ClickInErrorDismisses ==
    (last.op = "click" /\ last.recordingState = "error") =>
        /\ store.recordingError = null
        /\ store.recordingState = "idle"
        /\ store.recordingOverlayVisible = FALSE
        /\ Len(issued) = 1
        /\ issued[1].cmd = "dismissRecordingOverlay"

C10_Witness ==
    /\ last.op = "click" /\ last.recordingState = "error" /\ last.hadTimer
    /\ store.recordingState = "idle"

\* C11: within one dismissal cycle (the clicks and timer runs that follow the
\* arming of the auto-dismiss timer, with no event in between) the
\* dismiss-overlay command is issued at most once.
C11_DismissIssuedOncePerCycle ==
    cycle.kind # "none" => cycle.dismisses <= 1

\* C13: whenever recordingState is 'recording', transcriptionResult is null.
C13_NoResultWhileRecording ==
    store.recordingState = "recording" => store.transcriptionResult = null

\* C14: whenever recordingState is 'idle' after an event, a click or a timer
\* callback has been processed, transcriptionResult is null.
C14_NoResultWhenIdle ==
    (last.op \in EventOps \cup {"click", "timer"} /\ store.recordingState = "idle") =>
        store.transcriptionResult = null

\* C12: once the window is torn down its store is not changed any more,
\* whenever the subscription promises settle and whatever event is delivered.
C12_NoMutationAfterTeardown ==
    [][~mounted => store' = store]_vars

Terminal == store.recordingState = "done" \/ isError(store)

Dismissed ==
    /\ store.recordingState = "idle"
    /\ store.recordingError = null
    /\ store.recordingOverlayVisible = FALSE

\* C15: from every state of the mounted overlay in which recordingState is
\* 'done' or the error condition holds and after which no backend event
\* arrives, the store eventually has recordingState 'idle', recordingError
\* null and the overlay hidden, whatever the user clicks meanwhile.
C15_TerminalIsLeft ==
    (quiesced /\ InOverlay /\ Terminal) ~> Dismissed

SubscriptionStatus ==
    {"none", "pending", "active", "failed", "released", "orphan", "leaked"}

\* C16: a subscription whose setup fails ends as 'failed' (caught and
\* logged, nothing escapes), the failure changes no other subscription, once
\* all promises of the mounted window have settled every other listener is
\* established, and no handler of a failed subscription runs.
C16_SubscriptionFailureIsIsolated ==
    /\ [](\A e \in DOMAIN subs : subs[e] \in SubscriptionStatus)
    /\ []((mounted /\ Unsettled(subs) = {}) =>
             \A e \in DOMAIN subs : subs[e] \in {"active", "failed"})
    /\ [](\A e \in DOMAIN subs : subs[e] = "failed" => last.op # e)
    /\ [][\A e \in DOMAIN subs :
             (subs[e] # "failed" /\ subs'[e] = "failed") =>
                 \A f \in DOMAIN subs \ {e} : subs'[f] = subs[f]]_vars

C16_Witness ==
    /\ mounted /\ Unsettled(subs) = {}
    /\ \E e \in DOMAIN subs : subs[e] = "failed"
    /\ last.op \in DOMAIN subs /\ subs[last.op] = "active"
    /\ store # InitialStore

\* C17: a handled recording-stopped event, in the overlay window and in the
\* main window, sets recordingState to 'transcribing' and changes no other
\* field of the store.
C17_RecordingStoppedSetsTranscribing ==
    [][(Overlay_recordingStopped \/ (Main_recordingStopped /\ isMounted)) =>
          store' = [store EXCEPT !.recordingState = "transcribing"]]_vars

C17_Witness ==
    /\ last.op = "recording-stopped" /\ last.recordingState = "recording"
    /\ store.recordingState = "transcribing"

\* C18: a handled transcription-complete event with text t leaves
\* transcriptionResult = t and recordingState = 'done', from every prior
\* state, with recordingError and the overlay visibility as they were.
C18_TranscriptionCompleteSetsResult ==
    [][\A text \in Texts :
          (/\ Delivered("overlay", "transcription-complete")
           /\ Commit("transcription-complete", onTranscriptionComplete(store, text),
                     Comp, <<>>))
          => store' = [store EXCEPT !.transcriptionResult = text,
                                    !.recordingState = "done"]]_vars

C18_Witness ==
    /\ last.op = "transcription-complete" /\ last.recordingState = "transcribing"
    /\ store.transcriptionResult = "hello world"
    /\ store.recordingState = "done"

\* C19: a click made while recordingError is non-null runs the dismiss
\* routine, whatever recordingState is: the one command it issues is
\* dismiss-overlay, not cancel-recording or cancel-transcription.
C19_ClickWithErrorDismisses ==
    (last.op = "click" /\ last.hadError) =>
        /\ Len(issued) = 1
        /\ issued[1].cmd = "dismissRecordingOverlay"

\* C20: once recording-started or recording-stopped has been handled in the
\* mounted overlay no auto-dismiss timer is pending, so none can run, issue
\* dismiss-overlay and reset the state to idle.
C20_SupersededTimerNeverFires ==
    (InOverlay /\ last.op \in {"recording-started", "recording-stopped"}) =>
        /\ timers = {}
        /\ dismissTimeoutRef = nullRef

ClickCommand(name) == Len(issued) = 1 /\ issued[1].cmd = name

\* C21 as stated: a click in 'transcribing' without error issues the one
\* command cancel-transcription and leaves the store as it was, and the
\* state leaves 'transcribing' only in a step that handles
\* transcription-cancelled, -complete, -failed or recording-state-changed.
C21_ClickWhileTranscribing_Listed ==
    [][/\ (handleClick /\ store.recordingState = "transcribing"
                       /\ store.recordingError = null) =>
             (store' = store /\ ClickCommand("cancelTranscription")')
       /\ (win = "overlay" /\ store.recordingState = "transcribing"
                           /\ store.recordingError = null
                           /\ store'.recordingState # "transcribing") =>
             last'.op \in {"transcription-cancelled", "transcription-complete",
                           "transcription-failed", "recording-state-changed"}]_vars

\* C21, amended: as above, but the state leaves 'transcribing' only in a
\* step that handles a backend event, whichever it is (recording-started and
\* recording-failed included); never in the click, a timer or the settling
\* of the command.
C21_ClickWhileTranscribing ==
    [][/\ (handleClick /\ store.recordingState = "transcribing"
                       /\ store.recordingError = null) =>
             (store' = store /\ ClickCommand("cancelTranscription")')
       /\ (win = "overlay" /\ store.recordingState = "transcribing"
                           /\ store.recordingError = null
                           /\ store'.recordingState # "transcribing") =>
             last'.op \in EventOps]_vars

C21_Witness ==
    /\ last.op = "click" /\ last.recordingState = "transcribing" /\ ~last.hadError
    /\ store.recordingState = "transcribing"
    /\ ClickCommand("cancelTranscription")

\* C22: a click in 'recording' without error issues the one command
\* cancel-recording and leaves recordingState, recordingError and the overlay
\* visibility as they were, whether the command succeeds or returns an error.
C22_ClickWhileRecording ==
    [][(handleClick /\ store.recordingState = "recording"
                   /\ store.recordingError = null) =>
          /\ ClickCommand("cancelRecording")'
          /\ store'.recordingState = store.recordingState
          /\ store'.recordingError = store.recordingError
          /\ store'.recordingOverlayVisible = store.recordingOverlayVisible]_vars

C22_Witness ==
    /\ last.op = "click" /\ last.recordingState = "recording" /\ ~last.hadError
    /\ store.recordingState = "recording"
    /\ issued = <<Cmd("cancelRecording", "error")>>

\* C23: after a click made in 'done' or 'idle', recordingError and
\* transcriptionResult are null, recordingState is 'idle', the overlay is
\* hidden and the click has issued one dismiss-overlay command.
C23_ClickInDoneOrIdleDismisses ==
    (last.op = "click" /\ last.recordingState \in {"done", "idle"}) =>
        /\ Dismissed
        /\ store.transcriptionResult = null
        /\ ClickCommand("dismissRecordingOverlay")

C23_Witness ==
    /\ last.op = "click" /\ last.recordingState = "done" /\ last.hadTimer
    /\ Dismissed /\ timers = {}

\* C24: when the dismiss-overlay command of the dismiss routine returns an
\* error, the store is still reset: recordingState 'idle', recordingError
\* null, overlay hidden.
C24_ResetSurvivesCommandError ==
    (last.op \in {"click", "timer"}
        /\ issued = <<Cmd("dismissRecordingOverlay", "error")>>) => Dismissed

C24_Witness ==
    /\ last.op = "timer" /\ last.hadError
    /\ issued = <<Cmd("dismissRecordingOverlay", "error")>>
    /\ Dismissed

\* C25: once transcription-cancelled has been handled in the mounted overlay,
\* transcriptionResult is null, recordingState is 'idle', the overlay is
\* hidden, one dismiss-overlay command has been issued, and no auto-dismiss
\* timer is pending that would issue a second one.
C25_CancelledDismissesOnce ==
    (InOverlay /\ last.op = "transcription-cancelled") =>
        /\ store.transcriptionResult = null
        /\ store.recordingState = "idle"
        /\ store.recordingOverlayVisible = FALSE
        /\ ClickCommand("dismissRecordingOverlay")
        /\ timers = {}

\* the last step handled event e in the mounted window
Handled(e) == last.op = e /\ mounted

\* C26: once recording-failed has been handled, in either window,
\* recordingError is the error of the payload, recordingState is 'error' and
\* recordingOverlayVisible is true.
C26_RecordingFailedShowsError ==
    Handled("recording-failed") =>
        /\ store.recordingError \in Errors
        /\ store.recordingState = "error"
        /\ store.recordingOverlayVisible = TRUE

\* C27: once recording-started has been handled, in either window and from
\* whatever state, recordingError is null and recordingState is 'recording'.
C27_RecordingStartedResets ==
    Handled("recording-started") =>
        /\ store.recordingError = null
        /\ store.recordingState = "recording"

C27_Witness ==
    /\ Handled("recording-started") /\ last.hadError
    /\ store.recordingError = null /\ store.recordingState = "recording"

\* C28: once recording-state-changed has been handled, the store does not
\* hold recordingError non-null with a state other than 'error', nor state
\* 'error' with recordingError null.
C28_StateChangedDoesNotConflict ==
    Handled("recording-state-changed") =>
        (store.recordingState = "error" <=> store.recordingError # null)

\* C30: on every store value, setRecordingState, clearRecordingError and
\* setRecordingOverlayVisible change their own field only (clearRecordingError
\* leaves recordingState alone even when it is 'error'), and
\* setRecordingError(e) sets recordingError = e and recordingState = 'error',
\* for every e, null included.
C30_SettersChangeOwnFields ==
    /\ \A state \in RecordingState :
          LET r == setRecordingState(store, state)
          IN  /\ r.recordingState = state
              /\ r.recordingError = store.recordingError
              /\ r.recordingOverlayVisible = store.recordingOverlayVisible
              /\ r.transcriptionResult = store.transcriptionResult
    /\ LET r == clearRecordingError(store)
       IN  /\ r.recordingError = null
           /\ r.recordingState = store.recordingState
           /\ r.recordingOverlayVisible = store.recordingOverlayVisible
           /\ r.transcriptionResult = store.transcriptionResult
    /\ \A visible \in BOOLEAN :
          LET r == setRecordingOverlayVisible(store, visible)
          IN  /\ r.recordingOverlayVisible = visible
              /\ r.recordingState = store.recordingState
              /\ r.recordingError = store.recordingError
              /\ r.transcriptionResult = store.transcriptionResult
    /\ \A error \in Errors \cup {null} :
          LET r == setRecordingError(store, error)
          IN  /\ r.recordingError = error
              /\ r.recordingState = "error"
              /\ r.recordingOverlayVisible = store.recordingOverlayVisible
              /\ r.transcriptionResult = store.transcriptionResult

C30_Witness ==
    /\ last.op = "clearRecordingError" /\ last.recordingState = "error"
    /\ last.hadError
    /\ store.recordingState = "error" /\ store.recordingError = null

\* C33: every listener that was registered is released by the teardown of
\* its window, also when its listen() promise resolved after the teardown:
\* no registration is ever left behind without its unlisten being called.
C33_EstablishedIsReleased ==
    \A e \in DOMAIN subs : subs[e] # "leaked"

\* C34: recordingState is always one of idle, recording, transcribing, done,
\* error, whatever state string recording-state-changed carried.
C34_StateInEnum ==
    store.recordingState \in RecordingState

\* C36: at most one auto-dismiss timer is pending, and a pending timer is
\* the one dismissTimeoutRef refers to; when none is pending in a state
\* where the effect arms none, the ref is not needed to cancel anything.
C36_OnePendingTimerReferenced ==
    /\ Cardinality(timers) <= 1
    /\ \A t \in timers : dismissTimeoutRef = t.id
    /\ timers # {} => InOverlay

C36_Witness ==
    /\ InOverlay /\ last.op \in EventOps /\ last.hadTimer
    /\ \E t \in timers : t.elapsed = 0 /\ dismissTimeoutRef = t.id
    /\ cycle.kind = "error"

-----------------------------------------------------------------------------
(* Properties, shortcut change (SpecPref) *)

RegisterCalls(x) == SelectSeq(x.calls, LAMBDA c : c.kind = "updateQuickPaneShortcut")

PersistCalls(x) == SelectSeq(x.calls, LAMBDA c : c.kind = "savePreferences")

RolledBack(x) == x.results = <<"ok", "error", "ok">>

Desync(x) == x.results = <<"ok", "error", "error">>

RegistrationFailed(x) == Len(x.results) >= 1 /\ x.results[1] = "error"

\* C6: a shortcut change whose registration succeeded, whose save failed and
\* whose re-registration succeeded has made exactly the registration calls
\* (newValue, oldValue); with no other shortcut change in flight meanwhile,
\* the active registration and the persisted shortcut both equal oldValue.
C6_RolledBack ==
    \A t \in Tx :
        RolledBack(tx[t]) =>
            /\ RegisterCalls(tx[t]) =
                   <<RegisterCall(tx[t].newShortcut), RegisterCall(tx[t].oldShortcut)>>
            /\ tx[t].alone =>
                   /\ activeShortcut = tx[t].oldShortcut
                   /\ persisted.quick_pane_shortcut = tx[t].oldShortcut

C6_Witness ==
    \E t \in Tx :
        /\ RolledBack(tx[t]) /\ tx[t].alone
        /\ tx[t].newShortcut # tx[t].oldShortcut

\* C7: a shortcut change whose registration succeeded and whose save and
\* re-registration both failed surfaces the restore-failed toast, which is
\* not the toast of a plain registration failure, and its calls end with the
\* failed re-registration of oldValue.
C7_Desync ==
    \A t \in Tx :
        Desync(tx[t]) =>
            /\ tx[t].pc = "done"
            /\ tx[t].toasts[Len(tx[t].toasts)] = shortcutRestoreFailedToast
            /\ shortcutRestoreFailedToast # shortcutFailedToast
            /\ \A i \in 1..Len(tx[t].toasts) : tx[t].toasts[i] # shortcutFailedToast
            /\ tx[t].calls =
                   <<RegisterCall(tx[t].newShortcut),
                     PersistCall(shortcutRecord(tx[t])),
                     RegisterCall(tx[t].oldShortcut)>>

C7_Witness ==
    \E t \in Tx : Desync(tx[t]) /\ activeShortcut # persisted.quick_pane_shortcut

\* C8: a shortcut change whose first registration call failed surfaces the
\* registration-failed toast, has made that one call only (no save, no second
\* registration), and leaves the persisted shortcut as it was.
C8_RegistrationFailed ==
    \A t \in Tx :
        RegistrationFailed(tx[t]) =>
            /\ tx[t].pc = "done"
            /\ tx[t].toasts = <<shortcutFailedToast>>
            /\ tx[t].calls = <<RegisterCall(tx[t].newShortcut)>>
            /\ tx[t].alone => persisted.quick_pane_shortcut = tx[t].oldShortcut

C8_Witness ==
    \E t \in Tx :
        /\ RegistrationFailed(tx[t]) /\ tx[t].alone
        /\ tx[t].newShortcut # tx[t].oldShortcut

Succeeded(x) == x.results = <<"ok", "ok">>

\* C29: a shortcut change whose registration and save both succeeded has
\* made one registration call and then one save call, has surfaced no toast
\* and, with no other shortcut change in flight meanwhile, the record on disk
\* is the record the change started from with the shortcut replaced by
\* newValue and the active registration is newValue.
C29_Success ==
    \A t \in Tx :
        Succeeded(tx[t]) =>
            /\ tx[t].calls =
                   <<RegisterCall(tx[t].newShortcut),
                     PersistCall([tx[t].preferences EXCEPT
                                    !.quick_pane_shortcut = tx[t].newShortcut])>>
            /\ tx[t].toasts = <<>>
            /\ tx[t].alone =>
                   /\ persisted = [tx[t].preferences EXCEPT
                                     !.quick_pane_shortcut = tx[t].newShortcut]
                   /\ activeShortcut = tx[t].newShortcut

C29_Witness ==
    \E t \in Tx :
        /\ Succeeded(tx[t]) /\ tx[t].alone
        /\ tx[t].newShortcut # tx[t].oldShortcut
        /\ tx[t].preferences.theme = "dark"

\* C32: when two shortcut changes that were in flight together, the first
\* of them started with registration and record in agreement, have both
\* finished, the active registration equals the persisted shortcut unless
\* one of them surfaced the restore-failed (desync) error.
C32_OverlapStaysConsistent ==
    \A t, u \in Tx :
        ( /\ t # u
          /\ tx[t].pc = "done" /\ tx[u].pc = "done"
          /\ tx[t].outcome # "ignored" /\ tx[u].outcome # "ignored"
          /\ ~tx[t].alone /\ ~tx[u].alone
          /\ tx[t].synced /\ tx[u].synced )
        => \/ activeShortcut = persisted.quick_pane_shortcut
           \/ Desync(tx[t])
           \/ Desync(tx[u])

\* the four ways a shortcut change ends, as the results of its calls
Outcomes ==
    {<<"error">>, <<"ok", "ok">>, <<"ok", "error", "ok">>, <<"ok", "error", "error">>}

Started(x) == x.pc # "idle" /\ x.outcome # "ignored"

\* C37: a shortcut change that was started returns; at any moment it has
\* made at most two registration calls and at most one save call, and when
\* it has returned its calls ended in exactly one of: registration failed,
\* success, rolled back, desync.
C37_TransactionTerminates ==
    /\ [](\A t \in Tx :
            Started(tx[t]) =>
                /\ Len(RegisterCalls(tx[t])) <= 2
                /\ Len(PersistCalls(tx[t])) <= 1
                /\ tx[t].pc = "done" =>
                       /\ tx[t].results \in Outcomes
                       /\ Cardinality({i \in 1..4 :
                              <<RegistrationFailed(tx[t]), Succeeded(tx[t]),
                                RolledBack(tx[t]), Desync(tx[t])>>[i]}) = 1)
    /\ \A t \in Tx : InFlight(tx[t]) ~> (tx[t].pc = "done")

C37_Witness ==
    \E t, u \in Tx :
        /\ t # u
        /\ tx[t].pc = "done" /\ Desync(tx[t]) /\ Len(tx[t].calls) = 3
        /\ tx[u].pc = "done" /\ Succeeded(tx[u])

\* C38: a shortcut change requested while the preferences are not loaded
\* returns at once: it has made no call and surfaced no toast, and the step
\* leaves the active registration and the record on disk as they were.
C38_NotLoadedIsIgnored ==
    [][\A t \in Tx :
         (preferences = undefined /\ handleShortcutChange(t)) =>
             /\ tx'[t].pc = "done"
             /\ tx'[t].calls = <<>>
             /\ tx'[t].results = <<>>
             /\ tx'[t].toasts = <<>>
             /\ activeShortcut' = activeShortcut
             /\ persisted' = persisted
             /\ preferences' = preferences]_vars

C38_Witness ==
    \E t \in Tx :
        /\ tx[t].outcome = "ignored" /\ tx[t].newShortcut # persisted.quick_pane_shortcut
        /\ preferences = undefined /\ activeShortcut = persisted.quick_pane_shortcut

-----------------------------------------------------------------------------
(* Properties, appearance save (SpecAppearance) *)

\* C31: the shortcut of the record on disk changes only in the save step of
\* a shortcut change; the save of a theme leaves it as it was.
C31_ShortcutChangesOnlyInTransaction ==
    [][persisted'.quick_pane_shortcut # persisted.quick_pane_shortcut
          => \E t \in Tx : persistSettles(t)]_vars

-----------------------------------------------------------------------------
(* Properties, both windows (SpecPair) *)

\* C35: after the same sequence of events the stores of the main window and
\* of the overlay window hold the same recordingState and recordingError.
C35_WindowsConverge ==
    /\ pair.main.recordingState = pair.overlay.recordingState
    /\ pair.main.recordingError = pair.overlay.recordingError

-----------------------------------------------------------------------------
(* Properties, accessibility permission hook (SpecPermission) *)

\* C39: when a permission check has settled isChecking is false, and status
\* is 'NotDetermined' if the check threw; requestPermission returns the
\* granted flag of a request that succeeded and false for one that returned
\* an error or threw, and it has checked the status again exactly when the
\* request succeeded.
C39_PermissionHook ==
    /\ perm.last.op \in {"checkSettles", "recheckSettles"} =>
           /\ ~perm.isChecking
           /\ perm.last.threw => perm.status = "NotDetermined"
    /\ perm.pc = "recheck" => perm.result.status = "ok"
    /\ perm.pc = "done" =>
           /\ perm.returned = (perm.result.status = "ok" /\ perm.result.data)
           /\ perm.rechecked = (perm.result.status = "ok")

C39_Witness ==
    /\ perm.last.op = "recheckSettles" /\ perm.last.threw
    /\ perm.pc = "done" /\ perm.returned /\ perm.rechecked
    /\ perm.checks > 0

====
